---------------------------- MODULE Spec2Model ----------------------------
(***************************************************************************)
(* Model of src/main.py: the Streamlit book-collection manager.            *)
(*                                                                         *)
(* One step of the model is one run of the script (lines 248-250): a       *)
(* BookCollection is constructed, which reads books_data.json, and         *)
(* start_application dispatches to the operation chosen in the menu.       *)
(* The values the Streamlit widgets return (text inputs, select boxes,     *)
(* the file uploader, buttons) are the inputs of a run.                    *)
(*                                                                         *)
(* Python values: a str that the code inspects (title, author, search      *)
(* text) is a sequence of one-character strings; a book dict is a          *)
(* function from its keys; None is the value None below; a path is the     *)
(* pair <<folder, name>>.  JSON values on disk are tagged records          *)
(* [t |-> type, v |-> payload].                                            *)
(***************************************************************************)
EXTENDS Integers, Sequences, FiniteSets, TLC

VARIABLES
    storage,      \* content of books_data.json (FileMissing, undecodable text or a JSON value)
    folder,       \* whether the directory uploaded_books exists
    disk,         \* files in uploaded_books: path -> bytes
    book_list,    \* self.book_list at the end of the last run
    call,         \* the operation of the last run and the title / search text given to it
    out           \* what the last run rendered: message, rows, statistics, exception

vars == <<storage, folder, disk, book_list, call, out>>

----------------------------------------------------------------------------
(* Bounds and input samples *)

\* The add form is submitted only while the collection holds fewer books.
MaxBooks == 2

Dune == <<"D", "u", "n", "e">>
dune == <<"d", "u", "n", "e">>
DUNE == <<"D", "U", "N", "E">>
Emma == <<"E", "m", "m", "a">>
Herbert == <<"H", "e", "r", "b", "e", "r", "t">>

\* Text typed into the "Title" box of the add form.
Titles == {Dune, dune, Emma}
\* Text typed into the title box of the remove and update forms.
LookupTitles == {DUNE, Emma}
\* Text typed into the other boxes of the add form.
Authors == {Herbert}
Years == {<<>>}
Genres == {<<>>}
\* Text typed into the search box.
SearchTexts == {<<"D", "u", "n">>, <<"H", "e", "r">>}
SearchTypes == {"Title", "Author"}
\* Uploaded files: a suggested name and the bytes.
FileNames == {"a.pdf"}
Bytes == {"%PDF"}

----------------------------------------------------------------------------
(* Python and file-system primitives *)

None == <<"None">>

upload_folder == "uploaded_books"

UpperCase == <<"A", "B", "C", "D", "E", "F", "G", "H", "I", "J", "K", "L", "M",
               "N", "O", "P", "Q", "R", "S", "T", "U", "V", "W", "X", "Y", "Z">>
LowerCase == <<"a", "b", "c", "d", "e", "f", "g", "h", "i", "j", "k", "l", "m",
               "n", "o", "p", "q", "r", "s", "t", "u", "v", "w", "x", "y", "z">>

Digits == {"0", "1", "2", "3", "4", "5", "6", "7", "8", "9"}
Characters == {UpperCase[i] : i \in 1..26} \cup {LowerCase[i] : i \in 1..26} \cup Digits

\* str.lower() on one character: an upper-case letter becomes its lower-case
\* letter, every other character is kept
LowerChar ==
    [c \in Characters |->
        IF \E i \in 1..26 : UpperCase[i] = c
        THEN LowerCase[CHOOSE i \in 1..26 : UpperCase[i] = c]
        ELSE c]

\* str.lower()
Lower(s) == [i \in 1..Len(s) |-> LowerChar[s[i]]]

\* `a in b` on two strs: a is a substring of b
Contains(a, b) ==
    \E k \in 0..(Len(b) - Len(a)) : \A i \in 1..Len(a) : b[k + i] = a[i]

\* os.path.join(folder, name)
OsPathJoin(dir, name) == <<dir, name>>

\* os.path.exists(path) for a path in the upload folder
OsPathExists(path) == path \in DOMAIN disk

\* os.remove(path)
OsRemove(d, path) == [p \in (DOMAIN d) \ {path} |-> d[p]]

\* open(path, "wb").write(bytes): creates or truncates
WriteFile(d, path, bytes) ==
    [p \in (DOMAIN d) \cup {path} |-> IF p = path THEN bytes ELSE d[p]]

\* list.remove(x): drops the first element equal to x
ListRemove(list, x) ==
    LET i == CHOOSE k \in 1..Len(list) :
                 list[k] = x /\ \A j \in 1..(k - 1) : list[j] # x
    IN  SubSeq(list, 1, i - 1) \o SubSeq(list, i + 1, Len(list))

----------------------------------------------------------------------------
(* JSON: json.dump and json.load *)

J(t, v) == [t |-> t, v |-> v]

FileMissing == J("missing", "missing")
\* text that json.load cannot decode
Undecodable == J("undecodable", "{oops")

\* json.dump of one value of a book, by the key it is stored under
DumpValue(k, v) ==
    IF k = "read" THEN J("boolean", v)
    ELSE IF k = "pdf_file" /\ v = None THEN J("null", "null")
    ELSE J("string", v)

\* json.load of one JSON value
LoadValue(j) == IF j.t = "null" THEN None ELSE j.v

DumpBook(book) == [k \in DOMAIN book |-> DumpValue(k, book[k])]
LoadBook(obj) == [k \in DOMAIN obj |-> LoadValue(obj[k])]

\* json.dump(self.book_list, file, indent=4)
JsonDump(list) == J("array", [i \in 1..Len(list) |-> J("object", DumpBook(list[i]))])

\* The object a JSON array item must be for the code to treat it as a book.
IsObject(j) == j.t = "object"

\* Backfill without lines 70-72: the book as json.load gave it
BackfillNever(book) == book

\* lines 70-72: a book without the key "pdf_file" gets it, with the value None
Backfill(book) ==
    IF "pdf_file" \notin DOMAIN book
    THEN [k \in (DOMAIN book) \cup {"pdf_file"} |->
             IF k = "pdf_file" THEN None ELSE book[k]]
    ELSE book

NoException == "none"

\* read_from_file (lines 63-74): the exception that leaves it, and self.book_list.
\* FileNotFoundError and json.JSONDecodeError are caught (line 73).  The loop of
\* line 70 raises TypeError when the loaded value is not iterable (a number,
\* null), when it is a dict with a key that does not contain "pdf_file" (the
\* loop runs over its keys, and a str takes no item assignment: every JSON
\* object of this model has such a key) and at the first array item that is a
\* number.  The exception leaves __init__ (line 57) and the script (line 249),
\* so no BookCollection exists afterwards: book_list is then given as empty.
ReadFromFile(content) ==
    IF content.t \in {"missing", "undecodable"}
    THEN [raised |-> NoException, book_list |-> <<>>]
    ELSE IF content.t # "array"
    THEN [raised |-> "TypeError", book_list |-> <<>>]
    ELSE IF \E i \in 1..Len(content.v) : ~IsObject(content.v[i])
    THEN [raised |-> "TypeError", book_list |-> <<>>]
    ELSE [raised |-> NoException,
          book_list |-> [i \in 1..Len(content.v) |-> Backfill(LoadBook(content.v[i].v))]]

\* save_to_file (lines 76-79): the new content of books_data.json
SaveToFile(list) == JsonDump(list)

----------------------------------------------------------------------------
(* What a run renders *)

Rate(num, den) == <<num, den>>

Quiet ==
    [raised |-> NoException, message |-> "", found_books |-> <<>>,
     total_books |-> 0, completed_books |-> 0, completion_rate |-> Rate(0, 1)]

Message(m) == [Quiet EXCEPT !.message = m]

Call(op, text, search_type) == [op |-> op, text |-> text, search_type |-> search_type]

\* the file uploader returned None
NoUpload == [name |-> "", bytes |-> ""]
Uploads == [name : FileNames, bytes : Bytes]

\* FirstMatch as a loop that does not stop at its first hit would have it: the
\* last index whose title equals `title`
LastMatch(list, title) ==
    IF \E i \in 1..Len(list) : Lower(list[i].title) = Lower(title)
    THEN CHOOSE i \in 1..Len(list) :
             /\ Lower(list[i].title) = Lower(title)
             /\ \A j \in (i + 1)..Len(list) : Lower(list[j].title) # Lower(title)
    ELSE 0

\* the book at the first index whose title equals `title`, ignoring case (0: none)
FirstMatch(list, title) ==
    IF \E i \in 1..Len(list) : Lower(list[i].title) = Lower(title)
    THEN CHOOSE i \in 1..Len(list) :
             /\ Lower(list[i].title) = Lower(title)
             /\ \A j \in 1..(i - 1) : Lower(list[j].title) # Lower(title)
    ELSE 0

\* `"pdf_file" in book and book["pdf_file"]` (lines 121, 147, 177, 201)
HasPdf(book) == "pdf_file" \in DOMAIN book /\ book.pdf_file # None

----------------------------------------------------------------------------
(* The state after `python main.py` has never run: no record file, no folder *)

Init ==
    /\ storage = FileMissing
    /\ folder = FALSE
    /\ disk = <<>>
    /\ book_list = <<>>
    /\ call = Call("none", <<>>, "")
    /\ out = Quiet

\* __init__ (lines 52-61) completes: the loaded list
Loaded == ReadFromFile(storage).book_list
Constructed == ReadFromFile(storage).raised = NoException

\* NotFound with a save_to_file() before the error message
NotFoundSaves(list, content, d) ==
    [book_list |-> list, storage |-> SaveToFile(list), disk |-> d, saved |-> TRUE,
     message |-> "Book not found!"]

\* lines 127 and 189: st.error("Book not found!") and nothing else: the list,
\* the record file and the uploaded files are left as they are
NotFound(list, content, d) ==
    [book_list |-> list, storage |-> content, disk |-> d, saved |-> FALSE,
     message |-> "Book not found!"]

\* create_new_book (lines 81-110) with "Add Book" pressed
CreateNewBook(book_title, book_author, publication_year, book_genre, is_book_read, pdf_file) ==
    /\ Constructed
    /\ LET file_path == OsPathJoin(upload_folder, pdf_file.name)
           new_book == [title |-> book_title, author |-> book_author,
                        year |-> publication_year, genre |-> book_genre,
                        read |-> is_book_read,
                        pdf_file |-> IF pdf_file # NoUpload THEN file_path ELSE None]
           loaded == Loaded
           list == Append(loaded, new_book)
       IN  /\ Len(loaded) < MaxBooks
           /\ disk' = IF pdf_file # NoUpload
                      THEN WriteFile(disk, file_path, pdf_file.bytes)
                      ELSE disk
           /\ book_list' = list
           /\ storage' = SaveToFile(list)
    /\ folder' = TRUE
    /\ call' = Call("create_new_book", book_title, "")
    /\ out' = Message("Book added successfully!")

\* delete_book (lines 112-127) with "Remove Book" pressed
DeleteBook(book_title) ==
    /\ Constructed
    /\ LET loaded == Loaded
           i == FirstMatch(loaded, book_title)
       IN  IF i # 0
           THEN LET book == loaded[i]
                    list == ListRemove(loaded, book)
                IN  /\ disk' = IF HasPdf(book) /\ OsPathExists(book.pdf_file)
                               THEN OsRemove(disk, book.pdf_file)
                               ELSE disk
                    /\ book_list' = list
                    /\ storage' = SaveToFile(list)
                    /\ out' = Message("Book removed successfully!")
           ELSE LET r == NotFound(loaded, storage, disk)
                IN  /\ out' = Message(r.message)
                    /\ book_list' = r.book_list
                    /\ storage' = r.storage
                    /\ disk' = r.disk
    /\ folder' = TRUE
    /\ call' = Call("delete_book", book_title, "")

\* line 139: the test that selects a book (search_type is not read)
Matches(search_text, book) ==
    \/ Contains(search_text, Lower(book.title))
    \/ Contains(search_text, Lower(book.author))

RECURSIVE FoundBooks(_, _)
\* lines 136-140: the books that pass the test, in list order
FoundBooks(list, search_text) ==
    IF list = <<>> THEN <<>>
    ELSE (IF Matches(search_text, Head(list)) THEN <<Head(list)>> ELSE <<>>)
         \o FoundBooks(Tail(list), search_text)

\* lines 147-148 and 201-202: open(book["pdf_file"], "rb") of a listed book fails
OpenFails(list) ==
    \E i \in 1..Len(list) : HasPdf(list[i]) /\ ~OsPathExists(list[i].pdf_file)

\* find_book (lines 129-156) with "Search" pressed
FindBook(search_type, text) ==
    /\ Constructed
    /\ LET search_text == Lower(text)
           loaded == Loaded
           found_books == FoundBooks(loaded, search_text)
       IN  /\ out' = IF found_books = <<>>
                      THEN Message("No matching books found!")
                      ELSE [Quiet EXCEPT !.message = "Matching Books:",
                                         !.found_books = found_books,
                                         !.raised = IF OpenFails(found_books)
                                                    THEN "FileNotFoundError"
                                                    ELSE NoException]
           /\ book_list' = loaded
    /\ folder' = TRUE
    /\ call' = Call("find_book", text, search_type)
    /\ UNCHANGED <<storage, disk>>

\* What the widgets of lines 167-174 and 185 return for one matching book: the
\* defaults (the book's own values) except in the one field the user edited.
\* The sampled edits flip the "Have you read this book?" box or upload a file;
\* the text boxes keep their defaults.
Edit(field, text, upload, confirm) ==
    [field |-> field, text |-> text, upload |-> upload, confirm |-> confirm]

\* the widgets of a book the user left alone; c: "Update Book" is pressed
Unedited(c) == Edit("none", <<>>, NoUpload, c)

\* the widgets of a book the user edited
Touched ==
    {Edit("read", <<>>, NoUpload, FALSE)}
    \cup {Edit("pdf", <<>>, u, FALSE) : u \in Uploads}

Edits ==
    {Unedited(c) : c \in BOOLEAN}
    \cup {[t EXCEPT !.confirm = c] : t \in Touched, c \in BOOLEAN}

\* lines 167-171 and 183: the book after the widgets' values are assigned
Edited(book, edit) ==
    [book EXCEPT
        !.title = IF edit.field = "title" THEN edit.text ELSE @,
        !.author = IF edit.field = "author" THEN edit.text ELSE @,
        !.year = IF edit.field = "year" THEN edit.text ELSE @,
        !.genre = IF edit.field = "genre" THEN edit.text ELSE @,
        !.read = IF edit.field = "read" THEN ~@ ELSE @,
        !.pdf_file = IF edit.upload # NoUpload
                     THEN OsPathJoin(upload_folder, edit.upload.name) ELSE @]

\* lines 175-182: the old file is removed and the new one written
Reuploaded(d, book, edit) ==
    IF edit.upload = NoUpload THEN d
    ELSE WriteFile(IF HasPdf(book) /\ book.pdf_file \in DOMAIN d
                   THEN OsRemove(d, book.pdf_file) ELSE d,
                   OsPathJoin(upload_folder, edit.upload.name),
                   edit.upload.bytes)

RECURSIVE UpdateLoop(_, _, _, _, _, _)
\* the loop of lines 164-189 from index i on: the list, the record file and
\* the uploaded files it leaves, whether line 186 saved, and the message shown
\* last.  Line 188 returns only when "Update Book" is pressed; otherwise the
\* loop goes on to the next book and ends at line 189.
UpdateLoop(list, content, d, i, book_title, edits) ==
    IF i > Len(list)
    THEN NotFound(list, content, d)
    ELSE IF Lower(list[i].title) = Lower(book_title)
    THEN LET after == [list EXCEPT ![i] = Edited(list[i], edits[i])]
             files == Reuploaded(d, list[i], edits[i])
         IN  IF edits[i].confirm
             THEN [book_list |-> after, storage |-> SaveToFile(after),
                   disk |-> files, saved |-> TRUE,
                   message |-> "Book updated successfully!"]
             ELSE UpdateLoop(after, content, files, i + 1, book_title, edits)
    ELSE UpdateLoop(list, content, d, i + 1, book_title, edits)

\* the indices of the books whose title equals `title`, ignoring case
MatchIndices(list, title) ==
    {i \in 1..Len(list) : Lower(list[i].title) = Lower(title)}

\* The widgets' values for the books at `indices`, one Edit each.  The user
\* edits the form of at most one book (e; 0: none) in a run and presses
\* "Update Book" for at most one (s; 0: none); the widgets after a pressed
\* "Update Book" are never created (line 188 returns).
EditsOf(indices) ==
    UNION {{[i \in indices |->
                [(IF i = e THEN t ELSE Unedited(FALSE)) EXCEPT !.confirm = (i = s)]] :
              e \in {0} \cup {i \in indices : s = 0 \/ i <= s}, t \in Touched} :
           s \in {0} \cup indices}

\* update_book (lines 158-189) with "Find Book" pressed
UpdateBook(book_title, edits) ==
    /\ Constructed
    /\ LET r == UpdateLoop(Loaded, storage, disk, 1, book_title, edits)
       IN  /\ book_list' = r.book_list
           /\ disk' = r.disk
           /\ storage' = r.storage
           /\ out' = Message(r.message)
    /\ folder' = TRUE
    /\ call' = Call("update_book", book_title, "")

\* show_all_books (lines 191-210)
ShowAllBooks ==
    /\ Constructed
    /\ LET loaded == Loaded
       IN  /\ out' = IF loaded = <<>>
                      THEN Message("Your collection is empty!")
                      ELSE [Quiet EXCEPT !.raised = IF OpenFails(loaded)
                                                    THEN "FileNotFoundError"
                                                    ELSE NoException]
           /\ book_list' = loaded
    /\ folder' = TRUE
    /\ call' = Call("show_all_books", <<>>, "")
    /\ UNCHANGED <<storage, disk>>

RECURSIVE CompletedBooks(_)
\* line 216: sum(1 for book in self.book_list if book["read"])
CompletedBooks(list) ==
    IF list = <<>> THEN 0
    ELSE (IF Head(list).read THEN 1 ELSE 0) + CompletedBooks(Tail(list))

\* CompletionRate without the test `if total_books > 0`
CompletionRateUnguarded(completed_books, total_books) ==
    Rate(completed_books * 100, total_books)

\* line 217: completed_books / total_books * 100 as the fraction it denotes
\* (the rounding of the float division is left out), or 0
CompletionRate(completed_books, total_books) ==
    IF total_books > 0 THEN Rate(completed_books * 100, total_books) ELSE Rate(0, 1)

\* show_reading_progress (lines 212-219)
ShowReadingProgress ==
    /\ Constructed
    /\ LET loaded == Loaded
           total_books == Len(loaded)
           completed_books == CompletedBooks(loaded)
       IN  /\ out' = [Quiet EXCEPT
                          !.total_books = total_books,
                          !.completed_books = completed_books,
                          !.completion_rate = CompletionRate(completed_books, total_books)]
           /\ book_list' = loaded
    /\ folder' = TRUE
    /\ call' = Call("show_reading_progress", <<>>, "")
    /\ UNCHANGED <<storage, disk>>

Next ==
    \/ \E t \in Titles, a \in Authors, y \in Years, g \in Genres, r \in BOOLEAN,
          u \in {NoUpload} \cup Uploads : CreateNewBook(t, a, y, g, r, u)
    \/ \E t \in LookupTitles : DeleteBook(t)
    \/ \E k \in SearchTypes, q \in SearchTexts : FindBook(k, q)
    \/ \E t \in LookupTitles :
          \E edits \in EditsOf(MatchIndices(Loaded, t)) : UpdateBook(t, edits)
    \/ ShowAllBooks
    \/ ShowReadingProgress

Spec == Init /\ [][Next]_vars

----------------------------------------------------------------------------
(* Start-up on a record file that is already there: written by this version, *)
(* by the version before "pdf_file" was added, or damaged.                   *)

StoredBooks ==
    {[title |-> t, author |-> Herbert, year |-> <<>>, genre |-> <<>>, read |-> r,
      pdf_file |-> f] :
        t \in {Dune, Emma}, r \in BOOLEAN,
        f \in {None} \cup {OsPathJoin(upload_folder, n) : n \in FileNames}}

\* a book as the version without attachments wrote it
WithoutPdfKey(obj) == [k \in (DOMAIN obj) \ {"pdf_file"} |-> obj[k]]

StoredItems ==
    {J("object", DumpBook(b)) : b \in StoredBooks}
    \cup {J("object", WithoutPdfKey(DumpBook(b))) : b \in StoredBooks}
    \cup {J("number", 1)}

StoredFiles ==
    {FileMissing, Undecodable, J("number", 5), J("null", "null")}
    \cup {J("object", DumpBook(b)) : b \in StoredBooks}
    \cup UNION {{J("array", items) : items \in [1..n -> StoredItems]} : n \in 0..MaxBooks}

InitLoad ==
    /\ storage \in StoredFiles
    /\ folder \in BOOLEAN
    /\ disk = <<>>
    /\ book_list = <<>>
    /\ call = Call("none", <<>>, "")
    /\ out = Quiet

\* __init__ (lines 52-61), called at line 249
Construct ==
    /\ call.op = "none"
    /\ LET r == ReadFromFile(storage)
       IN  /\ book_list' = r.book_list
           /\ out' = [Quiet EXCEPT !.raised = r.raised]
           /\ folder' = IF r.raised = NoException THEN TRUE ELSE folder
    /\ call' = Call("__init__", <<>>, "")
    /\ UNCHANGED <<storage, disk>>

NextLoad == Construct

SpecLoad == InitLoad /\ [][NextLoad]_vars

----------------------------------------------------------------------------
(* Properties.  In a step, the unprimed Loaded is the collection the run    *)
(* starts from (what __init__ read), the primed variables what it leaves.   *)

\* a and b are equal up to the case of their letters
EqualIgnoringCase(a, b) ==
    /\ Len(a) = Len(b)
    /\ \A i \in 1..Len(a) :
          \/ a[i] = b[i]
          \/ \E k \in 1..26 : {a[i], b[i]} = {UpperCase[k], LowerCase[k]}

TitleIs(book, title) == EqualIgnoringCase(book.title, title)

Without(list, i) == SubSeq(list, 1, i - 1) \o SubSeq(list, i + 1, Len(list))

SomeTitleIs(list, title) == \E i \in 1..Len(list) : TitleIs(list[i], title)

IsFirstWithTitle(list, i, title) ==
    /\ TitleIs(list[i], title)
    /\ \A j \in 1..(i - 1) : ~TitleIs(list[j], title)

\* C1: removing a title that some book has (ignoring case) deletes exactly the
\* first such book, keeps every other book in its order, and the removed
\* book's attachment, if it had one, is no longer on disk.
C1_RemoveDeletesFirstMatch ==
    [][(call'.op = "delete_book" /\ SomeTitleIs(Loaded, call'.text)) =>
          \E i \in 1..Len(Loaded) :
              /\ IsFirstWithTitle(Loaded, i, call'.text)
              /\ book_list' = Without(Loaded, i)
              /\ Loaded[i].pdf_file # None => Loaded[i].pdf_file \notin DOMAIN disk'
              /\ out'.message = "Book removed successfully!"]_vars

\* a removal succeeded and a later book with the same title is still there
C1_Witness ==
    /\ call.op = "delete_book"
    /\ out.message = "Book removed successfully!"
    /\ SomeTitleIs(book_list, call.text)

\* C2: removing a title that no book has reports "not found" and changes
\* neither the collection, the record file nor the uploaded files.
C2_RemoveMissingChangesNothing ==
    [][(call'.op = "delete_book" /\ ~SomeTitleIs(Loaded, call'.text)) =>
          /\ out'.message = "Book not found!"
          /\ book_list' = Loaded
          /\ storage' = storage
          /\ disk' = disk]_vars

\* a removal failed on a collection that is not empty
C2_Witness ==
    /\ call.op = "delete_book"
    /\ out.message = "Book not found!"
    /\ book_list # <<>>

RECURSIVE SelectedBy(_, _, _)
\* the books whose `key` value contains the lower-cased text, in order
SelectedBy(list, key, text) ==
    IF list = <<>> THEN <<>>
    ELSE (IF Contains(Lower(text), Lower(Head(list)[key])) THEN <<Head(list)>> ELSE <<>>)
         \o SelectedBy(Tail(list), key, text)

\* C3: a search returns exactly the books whose selected field (title or
\* author) contains the text, ignoring case, in collection order; a book that
\* matches only in the other field is not returned.
C3_FindUsesSelectedField ==
    call.op = "find_book" =>
        out.found_books =
            SelectedBy(book_list, IF call.search_type = "Title" THEN "title" ELSE "author",
                       call.text)

\* C4: an update of a title that some book has changes only the first such
\* book; every other book, and the length and order of the collection, stay.
C4_UpdateChangesOnlyFirstMatch ==
    [][(call'.op = "update_book" /\ SomeTitleIs(Loaded, call'.text)) =>
          /\ Len(book_list') = Len(Loaded)
          /\ \A j \in 1..Len(Loaded) :
                ~IsFirstWithTitle(Loaded, j, call'.text) => book_list'[j] = Loaded[j]]_vars

\* C5: an update reports "not found" exactly when no book has the title, and
\* then changes neither the collection, the record file nor the uploaded files.
C5_UpdateNotFoundIffNoMatch ==
    [][call'.op = "update_book" =>
          /\ (out'.message = "Book not found!") <=> ~SomeTitleIs(Loaded, call'.text)
          /\ ~SomeTitleIs(Loaded, call'.text) =>
                book_list' = Loaded /\ storage' = storage /\ disk' = disk]_vars

\* C6: after an add, a remove or an update has run, loading the record file
\* yields the in-memory collection.
C6_FileMirrorsMemory ==
    call.op \in {"create_new_book", "delete_book", "update_book"} =>
        ReadFromFile(storage).book_list = book_list

\* the record file holds an array of objects
IsArrayOfObjects(content) ==
    /\ content.t = "array"
    /\ \A i \in 1..Len(content.v) : content.v[i].t = "object"

\* C7: loading never raises; a missing or malformed record file (undecodable,
\* or JSON that is not an array of objects) gives the empty collection.
C7_LoadNeverRaises ==
    call.op = "__init__" =>
        /\ out.raised = NoException
        /\ ~IsArrayOfObjects(storage) => book_list = <<>>

BookKeys == {"title", "author", "year", "genre", "read", "pdf_file"}

\* C8: after loading an array of books, every book has all six keys: a stored
\* book without "pdf_file" gets None, a stored one keeps its value, and no
\* other field and not the order is altered.
C8_LoadBackfillsPdfFile ==
    (call.op = "__init__" /\ IsArrayOfObjects(storage)) =>
        /\ Len(book_list) = Len(storage.v)
        /\ \A i \in 1..Len(book_list) :
              LET stored == storage.v[i].v
              IN  /\ DOMAIN book_list[i] = BookKeys
                  /\ \A k \in DOMAIN stored :
                        book_list[i][k] =
                            IF stored[k].t = "null" THEN None ELSE stored[k].v
                  /\ "pdf_file" \notin DOMAIN stored => book_list[i].pdf_file = None

\* a file with a book that lacks "pdf_file" before one that has a path was loaded
C8_Witness ==
    /\ call.op = "__init__"
    /\ IsArrayOfObjects(storage)
    /\ Len(book_list) = 2
    /\ "pdf_file" \notin DOMAIN storage.v[1].v
    /\ book_list[1].pdf_file = None
    /\ book_list[2].pdf_file # None

ReadCount(list) == Cardinality({i \in 1..Len(list) : list[i].read})

\* C9: the statistics give the number of books, the number of read books and
\* the rate read / total * 100, which is 0 for the empty collection; they
\* change neither the collection nor the record file.
C9_StatsCountAndRate ==
    [][call'.op = "show_reading_progress" =>
          /\ out'.total_books = Len(Loaded)
          /\ out'.completed_books = ReadCount(Loaded)
          /\ out'.raised = NoException
          /\ out'.completion_rate[2] > 0
          /\ out'.completion_rate[1] * Len(Loaded)
                = ReadCount(Loaded) * 100 * out'.completion_rate[2]
          /\ Len(Loaded) = 0 => out'.completion_rate[1] = 0
          /\ book_list' = Loaded
          /\ storage' = storage
          /\ disk' = disk]_vars

\* statistics of a collection of two books, one of them read
C9_Witness ==
    /\ call.op = "show_reading_progress"
    /\ out.total_books = 2
    /\ out.completed_books = 1
    /\ out.completion_rate = <<100, 2>>

\* statistics of the empty collection
C9_WitnessEmpty ==
    /\ call.op = "show_reading_progress"
    /\ out.total_books = 0
    /\ out.completion_rate[1] = 0

\* C10: after any sequence of adds, removes and updates, every book with an
\* attachment path refers to a file that exists in the upload folder.
C10_AttachmentsIntact ==
    \A i \in 1..Len(book_list) :
        HasPdf(book_list[i]) => book_list[i].pdf_file \in DOMAIN disk

=============================================================================
